---- MODULE Spec2Model ----
(***************************************************************************)
(* scan2pdf: the document digestion pipeline of scan2pdf.cpp.              *)
(*                                                                         *)
(* Spec       main() of scan2pdf.cpp: the acquisition jthread, the page    *)
(*            queue, the consumer loop, assembly, filename resolution and  *)
(*            delivery, with the catch handler of main.                    *)
(* SpecLegacy main() of the earlier single-threaded scan2pdf.cpp, whose    *)
(*            delivery renames the finished file and copies on failure.    *)
(***************************************************************************)
EXTENDS Integers, Sequences, FiniteSets, TLC

\* ---------------------------------------------------------------- bounds
\* sheets in the feeder
MaxPages == 3
\* scanlines a page can hold
MaxLines == 1
\* pages cut short by a scanner error that the program holds at one time
MaxFaults == 1
\* columns and rows of the largest page handed to proccess: the retry loop of
\* get_trim_shadow_bounds runs out of attempts only on a page of more than
\* 10 rows
MaxWidth == 1
MaxHeight == 11
\* the means and the distances of the standard deviation from the mean that
\* is_bw is given, in tenths of an rgb level: both sides of its two
\* thresholds
MinMean == 415
MaxMean == 430
MinDiff == 150
MaxDiff == 160
\* capacity of the page queue
QueueCap == 1

VARIABLES
    \* acquisition thread (the jthread lambda)
    ppc,            \* position of the acquisition thread
    fed,            \* pages started so far (the lambda's i)
    row,            \* get_next_image: scanlines written to the current page
    frame,          \* get_next_image: the page under construction
    \* shared between the two threads
    images_buffer,  \* hyx::circular_buffer<Magick::Image>
    done_scanning,  \* std::atomic<bool>
    \* consumer (main thread)
    cpc,            \* position of main
    image,          \* the page being digested
    applied,        \* the transform applied to the page being digested
    checks,         \* the checks evaluated on the page being digested, in order
    guard_saw,      \* the operand of the loop condition that let the consumer
                    \* into the loop body: "flag_unset" or "queue_nonempty"
    img_num,        \* pages digested so far
    images,         \* std::vector<Magick::Image>: the kept pages
    document_text,  \* OCR text of the kept pages
    exc,            \* what() of the exception in flight in main, or NoExc
    \* start-up and naming
    auto_mode,
    filename,
    py_loaded,      \* guess_organization is cached in py_init::imported_modules
    \* files
    combined_tiff,  \* <tmp>/combined_pages.tiff
    combined_pdf,   \* <tmp>/combined_pages.pdf
    destination,    \* outpath / (filename + ".pdf")
    delivery,       \* how far delivery got: "none", "renamed", "rename_failed",
                    \* "copied" or "copy_failed"
    \* the process
    exit_status,    \* "running", "0", "1", "SIGABRT" (std::terminate) or
                    \* "SIGSEGV"
    printed,        \* what main's catch handler wrote to std::cout
    logged,         \* what main's catch handler wrote to the log
    \* history
    taken,          \* ids of the pages take() returned, in order
    pushed,         \* ids of the pages emplace() stored, in order
    unoverridden,   \* the pages found white for which the operator typed no
                    \* answer in favour of keeping: [id, declined], declined
                    \* when the answer began with N or n
    acq_error,      \* what() of the exception raised in the acquisition code
    trailing,       \* ids of the pages whose read after the scanline loop was GOOD
    rendered,       \* what ProcessPages returned: "none", "text" or "failed"
    log_writers,    \* the threads that have called the global logger while
                    \* the acquisition thread was running
    \* proccess(image): the correction of one page
    spc,            \* position in proccess and get_trim_shadow_bounds, "idle"
                    \* outside it
    input,          \* columns and rows of the page passed to proccess
    page,           \* columns and rows of the page being corrected
    deskew_angle,   \* %[deskew:angle]
    edges,          \* what get_trim_edges_bounds returned
    shadow_copy,    \* get_trim_shadow_bounds: its by-value image, as
                    \* %wx%h%X%Y
    image_canvas,   \* get_trim_shadow_bounds: image_canvas
    attempt,        \* get_trim_shadow_bounds: the loop variable _
    shadow_bounds,  \* what get_trim_shadow_bounds returned
    trims,          \* history: calls of image.trim() in the retry loop
    shaves,         \* history: calls of image.crop("+0-1") in the retry loop
    path,           \* history: how the retry loop ended: "accepted",
                    \* "exhausted" or "caught"
    warned,         \* history: "Failed to trim shadow" was logged
    ops,            \* history: the operations applied to the page, in order
    \* is_bw(image) and the orientation of one kept page
    dpc,            \* position in the checks of the page, "idle" outside them
    mean,           \* image_stats.mean(), in tenths of an rgb level
    standardDeviation,  \* image_stats.standardDeviation(), in tenths
    bw_found,       \* what is_bw returned
    ori_deg,        \* what get_orientation returned
    image_rotated,  \* degrees the page was rotated by, clockwise
    pix_rotated     \* degrees the OCR bitmap was rotated by, clockwise

vars == <<ppc, fed, row, frame, images_buffer, done_scanning, cpc, image,
          applied, checks, guard_saw, img_num, images, document_text, exc, auto_mode, filename, py_loaded,
          combined_tiff, combined_pdf, destination, delivery, exit_status,
          printed, logged, taken, pushed, unoverridden, acq_error, trailing,
          rendered, log_writers, spc, input, page, deskew_angle, edges,
          shadow_copy, image_canvas, attempt, shadow_bounds, trims, shaves,
          path, warned, ops, dpc, mean, standardDeviation, bw_found, ori_deg,
          image_rotated, pix_rotated>>

digestVars == <<dpc, mean, standardDeviation, bw_found, ori_deg, image_rotated,
                pix_rotated>>

mainVars == <<ppc, fed, row, frame, images_buffer, done_scanning, cpc, image,
              applied, checks, guard_saw, img_num, images, document_text, exc,
              auto_mode, filename, py_loaded, combined_tiff, combined_pdf,
              destination, delivery, exit_status, printed, logged, taken,
              pushed, unoverridden, acq_error, trailing, rendered,
              log_writers>>
stageVars == <<spc, input, page, deskew_angle, edges, shadow_copy,
               image_canvas, attempt, shadow_bounds, trims, shaves, path,
               warned, ops>>

prodVars == <<ppc, fed, row, frame>>
consVars == <<cpc, image, applied, checks, guard_saw, img_num, images, document_text, exc>>
nameVars == <<auto_mode, filename, py_loaded>>
fileVars == <<combined_tiff, combined_pdf, destination, delivery>>
procVars == <<exit_status, printed, logged>>
histVars == <<taken, pushed, unoverridden, acq_error, trailing, rendered, log_writers>>

\* ---------------------------------------------------------------- values
NoExc == "none"
NoFile == <<>>
NoPage == [id |-> 0, partial |-> FALSE]
\* a Magick::Image as far as its geometry goes: columns, rows and the offsets
\* of its page; NoImage where there is none
NoImage == [w |-> 0, h |-> 0, x |-> 0, y |-> 0]
\* a geometry string "WxH+X+Y" as its four numbers
NoGeometry == <<0, 0, 0, 0>>

PageIds == 1..MaxPages

\* SANE_Status values sane_start can return
StartStatus == {"GOOD", "NO_DOCS", "JAMMED"}

\* SANE_Status values sane_read can return
ReadStatus == {"GOOD", "EOF", "IO_ERROR"}

\* what the operator types at the blank-page prompt
Answers == {<<>>, <<"n">>, <<"N">>, <<"y">>, <<"n", "o">>}

PatternTokens == {"%o", "%d", "%s", "%t"}

\* the file names given on the command line
Filenames == {<<"%o", "%d", "%s", "%t">>}

BadWrite == "Bad image write"
Remaining == "Remaining bytes after image read"
TooFew == "Too few images to output a pdf."
PageError == "Magick: page operation failed"
WriteError == "Magick: unable to write file"
PyError == "Failed to import module"
CopyError == "Failed to move output file"
MoveCopyError == "Failed to move or copy output file"

Ids(s) == [i \in DOMAIN s |-> s[i].id]

Range(s) == {s[i] : i \in DOMAIN s}

Running == exit_status = "running"

\* the pages cut short by a scanner error that are in the queue, in the
\* consumer's hands or in the kept-page list
faults ==
    Cardinality({p \in Range(images_buffer) \cup Range(images) \cup {image} :
                   p.partial})

\* the callers of the global logger once thread has called it; kept while
\* the acquisition thread runs
logger(thread) ==
    IF ppc \in {"start", "read", "drain", "emplace", "set_done", "log_done"}
      THEN log_writers \cup {thread}
      ELSE log_writers

\* ------------------------------------------------------- the page queue
\* hyx::circular_buffer: a bounded thread-safe FIFO; emplace waits while the
\* buffer is at capacity.
can_emplace(buf) == Len(buf) < QueueCap

emplace(buf, x) == Append(buf, x)

empty(buf) == buf = <<>>

size(buf) == Len(buf)

take(buf) == IF buf = <<>> THEN NoPage ELSE Head(buf)

after_take(buf) == IF buf = <<>> THEN buf ELSE Tail(buf)

\* ------------------------------------------------------- the scanner
\* sane_device::is_good
is_good(status) == status = "GOOD"

\* sane_device::start
start(status) == is_good(status)

\* sane_device::read
read(status) == is_good(status)

\* ------------------------------------------------------- acquisition thread
\* An exception that leaves the jthread's function: std::terminate.
ThreadThrows(what) ==
    /\ acq_error' = what
    /\ exit_status' = "SIGABRT"
    /\ ppc' = "terminated"
    /\ UNCHANGED <<printed, logged>>

\* for (auto i{0}; device->start(); ++i) logger("Obtaining image {}\n", i)
AcqStart ==
    /\ Running /\ ppc = "start"
    /\ \E st \in StartStatus :
         /\ is_good(st) => fed < MaxPages
         /\ IF start(st)
              THEN /\ fed' = fed + 1
                   /\ frame' = [id |-> fed + 1, partial |-> FALSE]
                   /\ row' = 0
                   /\ ppc' = "read"
                   /\ log_writers' = logger("acquisition")
              ELSE /\ ppc' = "set_done"
                   /\ UNCHANGED <<fed, frame, row, log_writers>>
    /\ UNCHANGED <<images_buffer, done_scanning, consVars, nameVars, fileVars,
                   procVars, taken, pushed, unoverridden, acq_error, trailing,
                   rendered,
                   stageVars, digestVars>>

\* get_next_image: one turn of the scanline loop
AcqReadLine ==
    /\ Running /\ ppc = "read"
    /\ \E st \in ReadStatus, written \in BOOLEAN :
         /\ is_good(st) => row < MaxLines
         /\ st = "IO_ERROR" => faults < MaxFaults
         /\ IF read(st)
              THEN IF written
                     THEN /\ row' = row + 1
                          /\ UNCHANGED <<ppc, frame, procVars, acq_error>>
                     ELSE /\ ThreadThrows(BadWrite)
                          /\ UNCHANGED <<row, frame>>
              ELSE /\ frame' = [frame EXCEPT !.partial = (st # "EOF")]
                   /\ row' = 0
                   /\ ppc' = "drain"
                   /\ UNCHANGED <<procVars, acq_error>>
    /\ UNCHANGED <<fed, images_buffer, done_scanning, consVars, nameVars,
                   fileVars, taken, pushed, unoverridden, trailing, rendered, log_writers,
                   stageVars, digestVars>>

\* a get_next_image that does not look for bytes left after the page
remaining_bytes_ignored(status) == FALSE

\* get_next_image: whether the read after the scanline loop found bytes left
remaining_bytes(status) == read(status)

\* get_next_image: the read after the scanline loop
AcqDrain ==
    /\ Running /\ ppc = "drain"
    /\ \E st \in ReadStatus :
         /\ trailing' = IF st = "GOOD" THEN trailing \cup {frame.id} ELSE trailing
         /\ IF remaining_bytes(st)
              THEN ThreadThrows(Remaining)
              ELSE /\ ppc' = "emplace"
                   /\ UNCHANGED <<procVars, acq_error>>
    /\ UNCHANGED <<fed, row, frame, images_buffer, done_scanning, consVars,
                   nameVars, fileVars, taken, pushed, unoverridden, rendered, log_writers,
                   stageVars, digestVars>>

\* a push that signals completion each time
EmplaceAndSignal ==
    /\ Running /\ ppc = "emplace"
    /\ Len(images_buffer) < QueueCap
    /\ images_buffer' = Append(images_buffer, frame)
    /\ pushed' = Append(pushed, frame.id)
    /\ frame' = NoPage
    /\ done_scanning' = TRUE
    /\ ppc' = "start"
    /\ UNCHANGED <<fed, row, consVars, nameVars, fileVars, procVars, taken,
                   unoverridden, acq_error, trailing, rendered, log_writers,
                   stageVars, digestVars>>

\* images_buffer.emplace(get_next_image(device))
AcqEmplace ==
    /\ Running /\ ppc = "emplace"
    /\ can_emplace(images_buffer)
    /\ images_buffer' = emplace(images_buffer, frame)
    /\ pushed' = Append(pushed, frame.id)
    /\ frame' = NoPage
    /\ ppc' = "start"
    /\ UNCHANGED <<fed, row, done_scanning, consVars, nameVars, fileVars,
                   procVars, taken, unoverridden, acq_error, trailing, rendered, log_writers,
                   stageVars, digestVars>>

\* done_scanning = true
AcqSetDone ==
    /\ Running /\ ppc = "set_done"
    /\ done_scanning' = TRUE
    /\ ppc' = "log_done"
    /\ UNCHANGED <<fed, row, frame, images_buffer, consVars, nameVars,
                   fileVars, procVars, histVars,
                   stageVars, digestVars>>

\* logger("Done obtaining images\n") and the lambda returns
AcqReturn ==
    /\ Running /\ ppc = "log_done"
    /\ ppc' = "returned"
    /\ log_writers' = logger("acquisition")
    /\ UNCHANGED <<fed, row, frame, images_buffer, done_scanning, consVars,
                   nameVars, fileVars, procVars, taken, pushed, unoverridden,
                   acq_error, trailing, rendered,
                   stageVars, digestVars>>

\* ------------------------------------------------------- pure helpers of main
\* std::regex_replace(name, std::regex(token), value)
regex_replace(name, token, value) ==
    [i \in DOMAIN name |-> IF name[i] = token THEN value ELSE name[i]]

\* the operator typed an answer to "Keep the page? [Y/n]" that asks to keep:
\* a line that is not empty and does not begin with N or n
typed_keep(answer) == answer # <<>> /\ Head(answer) \notin {"N", "n"}

\* the operator typed an answer that asks to remove the page
typed_no(answer) == answer # <<>> /\ Head(answer) \in {"N", "n"}

\* what the operator replied about the white page id
reply(id, answer) == [id |-> id, declined |-> typed_no(answer)]

\* a gate that takes only a lowercase n for a refusal
ask_user_lowercase_only(white, answer) ==
    IF white
      THEN ~(answer # <<>> /\ Head(answer) = "n")
      ELSE TRUE

\* the lambda ask_user_should_keep_image: white is is_white(image), answer
\* the line read from std::cin
ask_user_should_keep_image(white, answer) ==
    IF white
      THEN ~(answer # <<>> /\ Head(answer) \in {"N", "n"})
      ELSE TRUE

\* one check and what it returned
evaluated(check, result) == [check |-> check, result |-> result]

\* a chain that evaluates every check
classify_all(bw, text, gray) ==
    <<evaluated("is_bw", bw), evaluated("is_grayscale", gray),
      evaluated("has_text", text)>>

\* the checks the if / else if chain evaluates for a kept page, in order:
\* is_bw, then has_text when is_bw returned true, is_grayscale otherwise
classify(bw, text, gray) ==
    IF bw
      THEN <<evaluated("is_bw", TRUE), evaluated("has_text", text)>>
      ELSE <<evaluated("is_bw", FALSE), evaluated("is_grayscale", gray)>>

\* the operations of transform_with_text_to_bw, transform_to_bw and
\* transform_to_grayscale
operations(transform) ==
    CASE transform = "with_text_to_bw" ->
           <<"autoLevel", "unsharpmask", "autoThreshold OTSU">>
      [] transform = "to_bw" ->
           <<"brightnessContrast", "autoThreshold Kapur">>
      [] transform = "to_grayscale" ->
           <<"brightnessContrast", "opaque", "colorSpace LinearGRAY">>
      [] OTHER -> <<>>

\* a selection with the two black-and-white transforms exchanged
select_transform_exchanged(bw, text, gray) ==
    IF bw
      THEN IF text THEN "to_bw" ELSE "with_text_to_bw"
      ELSE IF gray THEN "to_grayscale" ELSE "none"

\* the transform the classification selects
select_transform(bw, text, gray) ==
    IF bw
      THEN IF text THEN "with_text_to_bw" ELSE "to_bw"
      ELSE IF gray THEN "to_grayscale" ELSE "none"

\* a kept-page list that takes the page twice
emplace_back_twice(vec, x) == Append(Append(vec, x), x)

\* a kept-page list that grows at the front
emplace_front(vec, x) == <<x>> \o vec

\* images.emplace_back(std::move(image))
emplace_back(vec, x) == Append(vec, x)

\* Magick::writeImages(images.begin(), images.end(), path)
writeImages(vec) == vec

\* parse_organization / parse_date / parse_store / parse_transaction: the
\* match when there is one, default_return otherwise
parse_or_default(match, default_return) ==
    IF match # "" THEN match ELSE default_return

\* what the four extractors can find in a non-empty text
OrgMatches == {"", "Acme"}
DateMatches == {"", "2023-01-05"}
StoreMatches == {"", "1234"}
TransactionMatches == {"", "tr-77"}

\* the substitutions of filename resolution, in the order of the code
resolve(name, org, date, store, transaction) ==
    regex_replace(
      regex_replace(
        regex_replace(
          regex_replace(name, "%o", parse_or_default(org, "<org>")),
          "%d", parse_or_default(date, "today")),
        "%s", parse_or_default(store, "<store>")),
      "%t", parse_or_default(transaction, "<transaction>"))

\* whether filename resolution substitutes at all
resolves(auto, text) == auto /\ text # <<>>

\* ------------------------------------------------------- main: start-up
\* the early import of guess_organization
InitPython ==
    /\ Running /\ cpc = "init"
    /\ \E ok \in BOOLEAN :
         /\ py_loaded' = ok
         /\ filename' = IF ok THEN filename
                              ELSE regex_replace(filename, "%o", "[org]")
    /\ cpc' = "spawn"
    /\ UNCHANGED <<prodVars, images_buffer, done_scanning, image, applied, checks, guard_saw, img_num,
                   images, document_text, exc, auto_mode, fileVars, procVars,
                   histVars,
                   stageVars, digestVars>>

\* std::jthread t1(...)
StartThread ==
    /\ Running /\ cpc = "spawn"
    /\ ppc' = "start"
    /\ cpc' = "guard_1"
    /\ UNCHANGED <<fed, row, frame, images_buffer, done_scanning, image,
                   applied, checks, guard_saw, img_num, images, document_text, exc, nameVars, fileVars,
                   procVars, histVars,
                   stageVars, digestVars>>

\* a loop condition that tests the queue before the flag
loop_condition_swapped == <<"images_buffer", "done_scanning">>

\* ------------------------------------------------------- main: consumer loop
\* the operands of the loop condition !done_scanning || !images_buffer.empty()
\* in the order || evaluates them
loop_condition == <<"done_scanning", "images_buffer">>

\* what the consumer has observed when an operand of the loop condition is
\* true
observed(name) ==
    IF name = "done_scanning" THEN "flag_unset" ELSE "queue_nonempty"

\* the value of one operand of the loop condition in the current state
operand(name) ==
    IF name = "done_scanning" THEN ~done_scanning ELSE ~empty(images_buffer)

\* the loop condition, left operand
LoopGuardFirst ==
    /\ Running /\ cpc = "guard_1"
    /\ cpc' = IF operand(loop_condition[1]) THEN "body" ELSE "guard_2"
    /\ guard_saw' = IF operand(loop_condition[1])
                      THEN observed(loop_condition[1])
                      ELSE guard_saw
    /\ UNCHANGED <<prodVars, images_buffer, done_scanning, image, applied, checks, img_num,
                   images, document_text, exc, nameVars, fileVars, procVars,
                   histVars,
                   stageVars, digestVars>>

\* the loop condition, right operand
LoopGuardSecond ==
    /\ Running /\ cpc = "guard_2"
    /\ cpc' = IF operand(loop_condition[2]) THEN "body" ELSE "join"
    /\ guard_saw' = IF operand(loop_condition[2])
                      THEN observed(loop_condition[2])
                      ELSE guard_saw
    /\ UNCHANGED <<prodVars, images_buffer, done_scanning, image, applied, checks, img_num,
                   images, document_text, exc, nameVars, fileVars, procVars,
                   histVars,
                   stageVars, digestVars>>

\* a loop body with the test inverted
LoopBodyInverted ==
    /\ Running /\ cpc = "body"
    /\ cpc' = IF images_buffer = <<>> THEN "take" ELSE "sleep"
    /\ UNCHANGED <<prodVars, images_buffer, done_scanning, image, applied,
                   checks, guard_saw, img_num, images, document_text, exc,
                   nameVars, fileVars, procVars, histVars,
                   stageVars, digestVars>>

\* if (images_buffer.empty())
LoopBody ==
    /\ Running /\ cpc = "body"
    /\ cpc' = IF empty(images_buffer) THEN "sleep" ELSE "take"
    /\ UNCHANGED <<prodVars, images_buffer, done_scanning, image, applied, checks, guard_saw, img_num,
                   images, document_text, exc, nameVars, fileVars, procVars,
                   histVars,
                   stageVars, digestVars>>

\* std::this_thread::sleep_for(100ms)
Sleep ==
    /\ Running /\ cpc = "sleep"
    /\ cpc' = "guard_1"
    /\ guard_saw' = "none"
    /\ UNCHANGED <<prodVars, images_buffer, done_scanning, image, applied, checks, img_num,
                   images, document_text, exc, nameVars, fileVars, procVars,
                   histVars,
                   stageVars, digestVars>>

\* Magick::Image image{images_buffer.take()}; logger("Digesting image\n")
Take ==
    /\ Running /\ cpc = "take"
    /\ image' = take(images_buffer)
    /\ images_buffer' = after_take(images_buffer)
    /\ taken' = Append(taken, take(images_buffer).id)
    /\ cpc' = "process"
    /\ guard_saw' = "none"
    /\ log_writers' = logger("main")
    /\ UNCHANGED <<prodVars, done_scanning, applied, checks, img_num, images,
                   document_text, exc, nameVars, fileVars, procVars, pushed,
                   unoverridden, acq_error, trailing, rendered,
                   stageVars, digestVars>>

\* an exception raised while a page is digested leaves the loop
PageThrows(what) ==
    /\ exc' = what
    /\ cpc' = "join"

\* image settings and proccess(image)
Process ==
    /\ Running /\ cpc = "process"
    /\ \E ok \in BOOLEAN :
         IF ok THEN /\ cpc' = "gate"
                    /\ exc' = exc
               ELSE PageThrows(PageError)
    /\ UNCHANGED <<prodVars, images_buffer, done_scanning, image, applied, checks, guard_saw, img_num,
                   images, document_text, nameVars, fileVars, procVars,
                   histVars,
                   stageVars, digestVars>>

\* if (ask_user_should_keep_image()), is_white evaluated first
Gate ==
    /\ Running /\ cpc = "gate"
    /\ \E white \in BOOLEAN, answer \in Answers :
         /\ ~white => answer = <<>>
         /\ checks' = <<evaluated("is_white", white)>>
         /\ unoverridden' = IF white /\ ~typed_keep(answer)
                              THEN unoverridden \cup {reply(image.id, answer)}
                              ELSE unoverridden
         /\ IF ask_user_should_keep_image(white, answer)
              THEN cpc' = "reduce"
              ELSE cpc' = "advance"
    /\ UNCHANGED <<prodVars, images_buffer, done_scanning, image, applied,
                   guard_saw, img_num, images,
                   document_text, exc, nameVars, fileVars, procVars, taken,
                   pushed, acq_error, trailing, rendered, log_writers,
                   stageVars, digestVars>>

\* is_bw / has_text / is_grayscale and the transform they select
Reduce ==
    /\ Running /\ cpc = "reduce"
    /\ \E bw \in BOOLEAN, text \in BOOLEAN, gray \in BOOLEAN, ok \in BOOLEAN :
         IF ok
           THEN /\ checks' = checks \o classify(bw, text, gray)
                /\ applied' = select_transform(bw, text, gray)
                /\ cpc' = "collect"
                /\ exc' = exc
           ELSE /\ PageThrows(PageError)
                /\ UNCHANGED <<applied, checks>>
    /\ UNCHANGED <<prodVars, images_buffer, done_scanning, image, guard_saw,
                   img_num,
                   images, document_text, nameVars, fileVars, procVars,
                   histVars,
                   stageVars, digestVars>>

\* a text buffer that grows at the front
prepend_text(doc, text) == text \o doc

\* document_text += get_text(...)
append_text(doc, text) == doc \o text

\* orientation, get_text, images.emplace_back
Collect ==
    /\ Running /\ cpc = "collect"
    /\ \E text \in {<<>>, <<image.id>>} :
         document_text' = append_text(document_text, text)
    /\ images' = emplace_back(images, image)
    /\ image' = NoPage
    /\ cpc' = "advance"
    /\ UNCHANGED <<prodVars, images_buffer, done_scanning, applied, checks, guard_saw,
                   img_num, exc, nameVars, fileVars, procVars, histVars,
                   stageVars, digestVars>>

\* ++img_num and the end of the loop body: image goes out of scope
Advance ==
    /\ Running /\ cpc = "advance"
    /\ img_num' = img_num + 1
    /\ image' = NoPage
    /\ applied' = "none"
    /\ checks' = <<>>
    /\ cpc' = "guard_1"
    /\ UNCHANGED <<prodVars, images_buffer, done_scanning, guard_saw, images,
                   document_text, exc, nameVars, fileVars, procVars, histVars,
                   stageVars, digestVars>>

\* the end of the jthread scope: ~jthread joins the acquisition thread
Join ==
    /\ Running /\ cpc = "join"
    /\ ppc = "returned"
    /\ cpc' = IF exc # NoExc THEN "handler" ELSE "check"
    /\ UNCHANGED <<prodVars, images_buffer, done_scanning, image, applied, checks, guard_saw, img_num,
                   images, document_text, exc, nameVars, fileVars, procVars,
                   histVars,
                   stageVars, digestVars>>

\* ------------------------------------------------------- main: assembly
\* an exception raised after the jthread scope goes to main's catch handler
MainThrows(what) ==
    /\ exc' = what
    /\ cpc' = "handler"

\* a main that goes on with no page kept
CheckCountSkipped ==
    /\ Running /\ cpc = "check"
    /\ cpc' = "write_tiff"
    /\ UNCHANGED <<prodVars, images_buffer, done_scanning, image, applied,
                   checks, guard_saw, img_num, images, document_text, exc,
                   nameVars, fileVars, procVars, histVars, stageVars, digestVars>>

\* if (images.size() == 0) throw
CheckCount ==
    /\ Running /\ cpc = "check"
    /\ IF Len(images) = 0
         THEN MainThrows(TooFew)
         ELSE /\ cpc' = "write_tiff"
              /\ exc' = exc
    /\ UNCHANGED <<prodVars, images_buffer, done_scanning, image, applied, checks, guard_saw, img_num,
                   images, document_text, nameVars, fileVars, procVars,
                   histVars,
                   stageVars, digestVars>>

\* Magick::writeImages(..., combined_pages_filepath + ".tiff")
WriteTiff ==
    /\ Running /\ cpc = "write_tiff"
    /\ \E ok \in BOOLEAN :
         IF ok
           THEN /\ combined_tiff' = writeImages(images)
                /\ cpc' = "resolve"
                /\ exc' = exc
           ELSE /\ MainThrows(WriteError)
                /\ combined_tiff' = combined_tiff
    /\ UNCHANGED <<prodVars, images_buffer, done_scanning, image, applied, checks, guard_saw, img_num,
                   images, document_text, nameVars, combined_pdf, destination,
                   delivery, procVars, histVars,
                   stageVars, digestVars>>

\* if (auto_mode && !document_text.empty()) the four regex_replace calls;
\* parse_organization imports guess_organization again when it is not cached
ResolveFilename ==
    /\ Running /\ cpc = "resolve"
    /\ IF resolves(auto_mode, document_text)
         THEN \E imported \in BOOLEAN, org \in OrgMatches, date \in DateMatches,
                 store \in StoreMatches, transaction \in TransactionMatches :
                /\ py_loaded => imported
                /\ IF imported
                     THEN /\ filename' = resolve(filename, org, date, store,
                                                 transaction)
                          /\ py_loaded' = TRUE
                          /\ cpc' = "render"
                          /\ exc' = exc
                     ELSE /\ MainThrows(PyError)
                          /\ UNCHANGED <<filename, py_loaded>>
         ELSE /\ cpc' = "render"
              /\ UNCHANGED <<filename, py_loaded, exc>>
    /\ UNCHANGED <<prodVars, images_buffer, done_scanning, image, applied, checks, guard_saw, img_num,
                   images, document_text, auto_mode, fileVars, procVars,
                   histVars,
                   stageVars, digestVars>>

\* the document tess_api->ProcessPages renders from the .tiff
text_pdf(tiff) == [pages |-> tiff, text_layer |-> TRUE]

\* a fallback that renders only the first kept page
image_pdf_first(vec) == [pages |-> SubSeq(vec, 1, 1), text_layer |-> FALSE]

\* the document writeImages renders from the kept pages
image_pdf(vec) == [pages |-> writeImages(vec), text_layer |-> FALSE]

\* the timeout argument of ProcessPages:
\* static_cast<int>(10'000 * images_buffer.size())
timeout_millisec(buf, vec) == 10000 * size(buf)

\* if (!tess_api->ProcessPages(...)) writeImages(..., ".pdf")
Render ==
    /\ Running /\ cpc = "render"
    /\ \E processed \in BOOLEAN, ok \in BOOLEAN :
         IF processed
           THEN /\ combined_pdf' = text_pdf(combined_tiff)
                /\ rendered' = "text"
                /\ cpc' = "deliver"
                /\ exc' = exc
           ELSE /\ rendered' = "failed"
                /\ IF ok
                     THEN /\ combined_pdf' = image_pdf(images)
                          /\ cpc' = "deliver"
                          /\ exc' = exc
                     ELSE /\ MainThrows(WriteError)
                          /\ combined_pdf' = combined_pdf
    /\ UNCHANGED <<prodVars, images_buffer, done_scanning, image, applied, checks, guard_saw, img_num,
                   images, document_text, nameVars, combined_tiff, destination,
                   delivery, procVars, taken, pushed, unoverridden, acq_error,
                   trailing, log_writers,
                   stageVars, digestVars>>

\* the file at outpath / (filename + ".pdf")
delivered(name, pdf) == [name |-> name, pdf |-> pdf]

\* std::filesystem::copy_file(...); on success main returns 0
Deliver ==
    /\ Running /\ cpc = "deliver" /\ ppc = "returned"
    /\ \E copied \in BOOLEAN :
         IF copied
           THEN /\ destination' = delivered(filename, combined_pdf)
                /\ delivery' = "copied"
                /\ cpc' = "done"
                /\ exit_status' = "0"
                /\ exc' = exc
           ELSE /\ MainThrows(CopyError)
                /\ delivery' = "copy_failed"
                /\ UNCHANGED <<destination, exit_status>>
    /\ UNCHANGED <<prodVars, images_buffer, done_scanning, image, applied, checks, guard_saw, img_num,
                   images, document_text, nameVars, combined_tiff,
                   combined_pdf, printed, logged, histVars,
                   stageVars, digestVars>>

\* catch (const std::exception& e): print, log, return 1
Handler ==
    /\ Running /\ cpc = "handler"
    /\ printed' = exc
    /\ logged' = exc
    /\ exit_status' = "1"
    /\ cpc' = "done"
    /\ UNCHANGED <<prodVars, images_buffer, done_scanning, image, applied, checks, guard_saw, img_num,
                   images, document_text, exc, nameVars, fileVars, histVars,
                   stageVars, digestVars>>

\* ------------------------------------------------------- the specification
Init ==
    /\ ppc = "unborn" /\ fed = 0 /\ row = 0 /\ frame = NoPage
    /\ images_buffer = <<>> /\ done_scanning = FALSE
    /\ cpc = "init" /\ image = NoPage /\ applied = "none" /\ checks = <<>>
    /\ img_num = 0 /\ images = <<>>
    /\ document_text = <<>> /\ exc = NoExc
    /\ auto_mode \in BOOLEAN /\ filename \in Filenames /\ py_loaded = FALSE
    /\ combined_tiff = NoFile /\ combined_pdf = NoFile /\ destination = NoFile
    /\ delivery = "none"
    /\ exit_status = "running" /\ printed = NoExc /\ logged = NoExc
    /\ taken = <<>> /\ pushed = <<>>
    /\ unoverridden = {}
    /\ acq_error = NoExc /\ trailing = {} /\ rendered = "none"
    /\ guard_saw = "none" /\ log_writers = {}
    /\ spc = "idle" /\ input = NoImage /\ page = NoImage
    /\ deskew_angle = "none"
    /\ edges = NoGeometry /\ shadow_copy = NoImage
    /\ image_canvas = NoGeometry /\ attempt = 0
    /\ shadow_bounds = NoGeometry /\ trims = 0 /\ shaves = 0
    /\ path = "none" /\ warned = FALSE /\ ops = <<>>
    /\ dpc = "idle" /\ mean = 0 /\ standardDeviation = 0 /\ bw_found = FALSE
    /\ ori_deg = 0 /\ image_rotated = 0 /\ pix_rotated = 0

Next ==
    \/ AcqStart \/ AcqReadLine \/ AcqDrain \/ AcqEmplace \/ AcqSetDone
    \/ AcqReturn
    \/ InitPython \/ StartThread
    \/ LoopGuardFirst \/ LoopGuardSecond \/ LoopBody \/ Sleep \/ Take
    \/ Process \/ Gate \/ Reduce \/ Collect \/ Advance \/ Join
    \/ CheckCount \/ WriteTiff \/ ResolveFilename \/ Render \/ Deliver
    \/ Handler

Spec == Init /\ [][Next]_vars

\* ------------------------------------------------------- the earlier main
\* The single-threaded main: every page is scanned into images, then each
\* is digested in place; the finished file is renamed to the destination
\* and copied when the rename fails.

\* vec without its i-th element: images.erase(images.begin() + i)
erase(vec, i) == SubSeq(vec, 1, i - 1) \o SubSeq(vec, i + 1, Len(vec))

\* for (auto i = 0; device->start(); ++i) images.push_back(get_next_image(device))
LegacyScan ==
    /\ Running /\ cpc = "l_scan"
    /\ \E st \in StartStatus, partial \in BOOLEAN, drain \in ReadStatus :
         /\ is_good(st) => fed < MaxPages
         /\ partial => start(st) /\ faults < MaxFaults
         /\ IF start(st)
              THEN /\ fed' = fed + 1
                   /\ IF remaining_bytes(drain)
                        THEN /\ MainThrows(Remaining)
                             /\ images' = images
                        ELSE /\ images' = Append(images, [id |-> fed + 1,
                                                          partial |-> partial])
                             /\ UNCHANGED <<cpc, exc>>
              ELSE /\ cpc' = "l_digest"
                   /\ UNCHANGED <<fed, images, exc>>
    /\ UNCHANGED <<ppc, row, frame, images_buffer, done_scanning, image,
                   applied, checks, guard_saw, img_num, document_text, nameVars, fileVars,
                   procVars, histVars,
                   stageVars, digestVars>>

\* one turn of for (const auto& [i, image] : std::views::enumerate(images)).
\* Erasing from images inside the loop invalidates the loop's iterators: the
\* loop goes on past the element that moved into the erased place, or the
\* process dies.
LegacyDigest ==
    /\ Running /\ cpc = "l_digest"
    /\ IF img_num >= Len(images)
         THEN /\ cpc' = "check"
              /\ UNCHANGED <<img_num, images, document_text, exc, unoverridden,
                             exit_status>>
         ELSE \E ok \in BOOLEAN, white \in BOOLEAN, answer \in Answers,
                 text \in {<<>>, <<images[img_num + 1].id>>},
                 survives \in BOOLEAN :
                /\ ~white => answer = <<>>
                /\ IF ~ok
                     THEN /\ MainThrows(PageError)
                          /\ UNCHANGED <<img_num, images, document_text,
                                         unoverridden, exit_status>>
                     ELSE IF ask_user_should_keep_image(white, answer)
                            THEN /\ document_text' = document_text \o text
                                 /\ img_num' = img_num + 1
                                 /\ unoverridden' =
                                      IF white /\ ~typed_keep(answer)
                                        THEN unoverridden
                                               \cup {reply(images[img_num + 1].id,
                                                           answer)}
                                        ELSE unoverridden
                                 /\ UNCHANGED <<cpc, exc, images,
                                                exit_status>>
                            ELSE /\ images' = erase(images, img_num + 1)
                                 /\ unoverridden' =
                                      unoverridden
                                        \cup {reply(images[img_num + 1].id,
                                                    answer)}
                                 /\ img_num' = img_num + 1
                                 /\ exit_status' = IF survives THEN exit_status
                                                               ELSE "SIGSEGV"
                                 /\ UNCHANGED <<cpc, exc, document_text>>
    /\ UNCHANGED <<prodVars, images_buffer, done_scanning, image, applied, checks, guard_saw,
                   nameVars, fileVars, printed, logged, taken, pushed,
                   acq_error, trailing, rendered, log_writers,
                   stageVars, digestVars>>

\* a delivery that gives up when the rename fails
RenameOnly ==
    /\ Running /\ cpc = "deliver" /\ ppc = "absent"
    /\ \E renamed \in BOOLEAN :
         IF renamed
           THEN /\ destination' = [name |-> filename, pdf |-> combined_pdf]
                /\ combined_pdf' = NoFile
                /\ delivery' = "renamed"
                /\ cpc' = "done"
                /\ exit_status' = "0"
                /\ exc' = exc
           ELSE /\ delivery' = "rename_failed"
                /\ exc' = MoveCopyError
                /\ cpc' = "handler"
                /\ UNCHANGED <<destination, combined_pdf, exit_status>>
    /\ UNCHANGED <<prodVars, images_buffer, done_scanning, image, applied, checks, guard_saw,
                   img_num, images, document_text, nameVars,
                   combined_tiff, printed, logged, histVars,
                   stageVars, digestVars>>

\* std::filesystem::rename(...); on success main returns 0
LegacyRename ==
    /\ Running /\ cpc = "deliver" /\ ppc = "absent"
    /\ \E renamed \in BOOLEAN :
         IF renamed
           THEN /\ destination' = delivered(filename, combined_pdf)
                /\ combined_pdf' = NoFile
                /\ delivery' = "renamed"
                /\ cpc' = "done"
                /\ exit_status' = "0"
           ELSE /\ delivery' = "rename_failed"
                /\ cpc' = "l_copy"
                /\ UNCHANGED <<destination, combined_pdf, exit_status>>
    /\ UNCHANGED <<prodVars, images_buffer, done_scanning, image, applied, checks, guard_saw,
                   img_num, images, document_text, exc, nameVars,
                   combined_tiff, printed, logged, histVars,
                   stageVars, digestVars>>

\* if (ecode.value() != 0) copy_file(...), throwing when it returns false
LegacyCopy ==
    /\ Running /\ cpc = "l_copy"
    /\ \E copied \in BOOLEAN :
         IF copied
           THEN /\ destination' = delivered(filename, combined_pdf)
                /\ delivery' = "copied"
                /\ cpc' = "done"
                /\ exit_status' = "0"
                /\ exc' = exc
           ELSE /\ MainThrows(MoveCopyError)
                /\ delivery' = "copy_failed"
                /\ UNCHANGED <<destination, exit_status>>
    /\ UNCHANGED <<prodVars, images_buffer, done_scanning, image, applied, checks, guard_saw,
                   img_num, images, document_text, nameVars, combined_tiff,
                   combined_pdf, printed, logged, histVars,
                   stageVars, digestVars>>

\* the state at the try block that opens the device; the start-up import of
\* guess_organization has succeeded or put "[org]" for %o
LegacyInit ==
    /\ ppc = "absent" /\ fed = 0 /\ row = 0 /\ frame = NoPage
    /\ images_buffer = <<>> /\ done_scanning = FALSE
    /\ cpc = "l_scan" /\ image = NoPage /\ applied = "none" /\ checks = <<>>
    /\ img_num = 0
    /\ images = <<>> /\ document_text = <<>> /\ exc = NoExc
    /\ auto_mode \in BOOLEAN /\ py_loaded \in BOOLEAN
    /\ \E name \in Filenames :
         filename = IF py_loaded THEN name
                                 ELSE regex_replace(name, "%o", "[org]")
    /\ combined_tiff = NoFile /\ combined_pdf = NoFile /\ destination = NoFile
    /\ delivery = "none"
    /\ exit_status = "running" /\ printed = NoExc /\ logged = NoExc
    /\ taken = <<>> /\ pushed = <<>> /\ unoverridden = {}
    /\ acq_error = NoExc /\ trailing = {} /\ rendered = "none"
    /\ guard_saw = "none" /\ log_writers = {}
    /\ spc = "idle" /\ input = NoImage /\ page = NoImage
    /\ deskew_angle = "none"
    /\ edges = NoGeometry /\ shadow_copy = NoImage
    /\ image_canvas = NoGeometry /\ attempt = 0
    /\ shadow_bounds = NoGeometry /\ trims = 0 /\ shaves = 0
    /\ path = "none" /\ warned = FALSE /\ ops = <<>>
    /\ dpc = "idle" /\ mean = 0 /\ standardDeviation = 0 /\ bw_found = FALSE
    /\ ori_deg = 0 /\ image_rotated = 0 /\ pix_rotated = 0

LegacyNext ==
    \/ LegacyScan \/ LegacyDigest
    \/ CheckCount \/ WriteTiff \/ ResolveFilename \/ Render
    \/ LegacyRename \/ LegacyCopy
    \/ Handler

SpecLegacy == LegacyInit /\ [][LegacyNext]_vars

\* ------------------------------------------------------- proccess(image)
\* The correction of one page, by the geometry of the page: deskew, the crop
\* to the scan edges and the crop to the bounds found under the shadow.

\* image.repage()
repage(img) == [img EXCEPT !.x = 0, !.y = 0]

\* image.formatExpression("%wx%h%X%Y")
formatExpression(img) == <<img.w, img.h, img.x, img.y>>

\* the region a geometry names on an image: a width or height of 0 stands for
\* the image's own
region(img, g) ==
    [left   |-> g[3],
     right  |-> g[3] + (IF g[1] = 0 THEN img.w ELSE g[1]),
     top    |-> g[4],
     bottom |-> g[4] + (IF g[2] = 0 THEN img.h ELSE g[2])]

Max(a, b) == IF a > b THEN a ELSE b
Min(a, b) == IF a < b THEN a ELSE b

\* image.crop(g): the part of the image inside the region
crop(img, g) ==
    LET r == region(img, g)
        left == Max(r.left, img.x)
        top == Max(r.top, img.y)
    IN  [w |-> Min(r.right, img.x + img.w) - left,
         h |-> Min(r.bottom, img.y + img.h) - top,
         x |-> left, y |-> top]

\* image.crop(g) raises "geometry does not contain image"
crop_throws(img, g) == crop(img, g).w <= 0 \/ crop(img, g).h <= 0

\* what image.trim() can leave of an image: the image itself, a smaller
\* rectangle of it with its offsets, or one pixel at -1-1 when nothing but
\* background was found
trim(img) ==
    {img, [w |-> 1, h |-> 1, x |-> -1, y |-> -1]} \cup
    {[w |-> w, h |-> h, x |-> img.x + x, y |-> img.y + y] :
       <<w, h, x, y>> \in
         {g \in (1..img.w) \X (1..img.h) \X (0..img.w) \X (0..img.h) :
            g[3] + g[1] <= img.w /\ g[4] + g[2] <= img.h}}

\* the turns of for (auto _ : std::views::iota(0, 10))
trim_attempts == 10

\* a loop that never runs out of turns
unbounded(i) == TRUE

\* the loop has a turn left
iota(i) == i < trim_attempts

\* a shave that adds a row
extent(img) == [img EXCEPT !.h = img.h + 1]

\* image.crop("+0-1"); image.repage()
shave(img) == repage(crop(img, <<0, 0, 0, -1>>))

\* the bounds of the image as the loop left it
trimmed_bounds(canvas, img) == formatExpression(img)

\* return image_canvas
returned_bounds(canvas, img) == canvas

\* an exception leaves proccess
ProccessThrows ==
    /\ spc' = "threw"
    /\ UNCHANGED <<input, page, deskew_angle, edges, shadow_copy,
                   image_canvas, attempt, shadow_bounds, trims, shaves, path,
                   warned, ops>>

\* the operations of proccess on the page up to the edge crop
basic_ops == <<"despeckle", "enhance", "alpha", "deskew", "repage">>

\* image.crop(get_trim_edges_bounds(image)); image.repage()
edges_ops == <<"crop edges", "repage">>

\* a correction that ends with its crop
gamma_first == <<"gamma", "crop shadow", "repage">>

\* image.crop(get_trim_shadow_bounds(image)); image.repage(); image.gamma()
shadow_ops == <<"crop shadow", "repage", "gamma">>

\* despeckle, enhance, alpha(false); deskew(image); image.repage()
Deskew ==
    /\ spc = "deskew"
    /\ \/ ProccessThrows
       \/ /\ \E angle \in {"0", "-1.25"}, dw, dh \in 0..1 :
               /\ angle = "0" => dw = 0 /\ dh = 0
               /\ deskew_angle' = angle
               /\ page' = repage([page EXCEPT !.w = page.w + dw,
                                               !.h = page.h + dh])
          /\ spc' = "edges"
          /\ ops' = ops \o basic_ops
          /\ UNCHANGED <<input, edges, shadow_copy, image_canvas, attempt,
                         shadow_bounds, trims, shaves, path, warned>>
    /\ UNCHANGED <<mainVars, digestVars>>

\* image.crop(get_trim_edges_bounds(image)); image.repage()
TrimEdges ==
    /\ spc = "edges"
    /\ \E trimmed \in trim(page), throws \in BOOLEAN :
         LET bounds == formatExpression(trimmed)
         IN  IF throws \/ crop_throws(page, bounds)
               THEN ProccessThrows
               ELSE /\ edges' = bounds
                    /\ page' = repage(crop(page, bounds))
                    /\ spc' = "shadow"
                    /\ ops' = ops \o edges_ops
                    /\ UNCHANGED <<input, deskew_angle, shadow_copy,
                                   image_canvas, attempt, shadow_bounds,
                                   trims, shaves, path, warned>>
    /\ UNCHANGED <<mainVars, digestVars>>

\* get_trim_shadow_bounds(image) up to the try block: the copy of the page
\* is prepared and image_canvas set to its bounds
ShadowEnter ==
    /\ spc = "shadow"
    /\ \/ ProccessThrows
       \/ /\ shadow_copy' = page
          /\ image_canvas' = formatExpression(page)
          /\ attempt' = 0
          /\ spc' = "trim"
          /\ UNCHANGED <<input, page, deskew_angle, edges, shadow_bounds,
                         trims, shaves, path, warned, ops>>
    /\ UNCHANGED <<mainVars, digestVars>>

\* a comparison that never finds a change
always_same(before, after) == TRUE

\* if (before_trim_image_canvas == after_trim_image_canvas)
same(before, after) == before = after

\* a handler that throws again
Rethrown ==
    /\ warned' = TRUE
    /\ path' = "caught"
    /\ spc' = "threw"

\* catch (const std::exception& e): the warning is logged
Caught ==
    /\ warned' = TRUE
    /\ path' = "caught"
    /\ spc' = "return"

\* one turn of the loop up to the comparison: image.trim() and the bounds
\* before and after it
ShadowTrim ==
    /\ spc = "trim" /\ iota(attempt)
    /\ trims' = trims + 1
    /\ \E trimmed \in trim(shadow_copy), throws \in BOOLEAN :
         LET before_trim_image_canvas == formatExpression(shadow_copy)
             after_trim_image_canvas == formatExpression(trimmed)
         IN  IF throws
               THEN /\ Caught
                    /\ UNCHANGED <<shadow_copy, image_canvas>>
               ELSE /\ shadow_copy' = trimmed
                    /\ IF same(before_trim_image_canvas,
                               after_trim_image_canvas)
                         THEN /\ spc' = "shave"
                              /\ UNCHANGED <<image_canvas, path, warned>>
                         ELSE /\ image_canvas' = after_trim_image_canvas
                              /\ path' = "accepted"
                              /\ spc' = "return"
                              /\ UNCHANGED warned
    /\ UNCHANGED <<input, page, deskew_angle, edges, attempt, shadow_bounds,
                   shaves, ops>>
    /\ UNCHANGED <<mainVars, digestVars>>

\* the rest of the turn: image.crop("+0-1"); image.repage()
ShadowShave ==
    /\ spc = "shave"
    /\ shaves' = shaves + 1
    /\ IF crop_throws(shadow_copy, <<0, 0, 0, -1>>)
         THEN /\ Caught
              /\ UNCHANGED <<shadow_copy, attempt>>
         ELSE /\ shadow_copy' = shave(shadow_copy)
              /\ attempt' = attempt + 1
              /\ spc' = "trim"
              /\ UNCHANGED <<path, warned>>
    /\ UNCHANGED <<input, page, deskew_angle, edges, image_canvas,
                   shadow_bounds, trims, ops>>
    /\ UNCHANGED <<mainVars, digestVars>>

\* the loop ends with no turn left
ShadowExhausted ==
    /\ spc = "trim" /\ ~iota(attempt)
    /\ path' = "exhausted"
    /\ spc' = "return"
    /\ UNCHANGED <<input, page, deskew_angle, edges, shadow_copy,
                   image_canvas, attempt, shadow_bounds, trims, shaves,
                   warned, ops>>
    /\ UNCHANGED <<mainVars, digestVars>>

\* return image_canvas
ShadowReturn ==
    /\ spc = "return"
    /\ shadow_bounds' = returned_bounds(image_canvas, shadow_copy)
    /\ spc' = "crop"
    /\ UNCHANGED <<input, page, deskew_angle, edges, shadow_copy,
                   image_canvas, attempt, trims, shaves, path, warned, ops>>
    /\ UNCHANGED <<mainVars, digestVars>>

\* image.crop(<the bounds returned>); image.repage(); image.gamma(...)
CropShadow ==
    /\ spc = "crop"
    /\ \E throws \in BOOLEAN :
         IF throws \/ crop_throws(page, shadow_bounds)
           THEN ProccessThrows
           ELSE /\ page' = repage(crop(page, shadow_bounds))
                /\ spc' = "returned"
                /\ ops' = ops \o shadow_ops
                /\ UNCHANGED <<input, deskew_angle, edges, shadow_copy,
                               image_canvas, attempt, shadow_bounds, trims,
                               shaves, path, warned>>
    /\ UNCHANGED <<mainVars, digestVars>>

\* a page of any size up to the bounds is handed to proccess by the consumer
ProccessInit ==
    /\ ppc = "unborn" /\ fed = 0 /\ row = 0 /\ frame = NoPage
    /\ images_buffer = <<>> /\ done_scanning = FALSE
    /\ cpc = "process" /\ image = [id |-> 1, partial |-> FALSE]
    /\ applied = "none" /\ checks = <<>>
    /\ img_num = 0 /\ images = <<>>
    /\ document_text = <<>> /\ exc = NoExc
    /\ auto_mode = FALSE /\ filename \in Filenames /\ py_loaded = FALSE
    /\ combined_tiff = NoFile /\ combined_pdf = NoFile /\ destination = NoFile
    /\ delivery = "none"
    /\ exit_status = "running" /\ printed = NoExc /\ logged = NoExc
    /\ taken = <<1>> /\ pushed = <<1>>
    /\ unoverridden = {}
    /\ acq_error = NoExc /\ trailing = {} /\ rendered = "none"
    /\ guard_saw = "queue_nonempty" /\ log_writers = {}
    /\ spc = "deskew"
    /\ input \in [w : 1..MaxWidth, h : 1..MaxHeight, x : {0}, y : {0}]
    /\ page = input
    /\ deskew_angle = "none"
    /\ edges = NoGeometry /\ shadow_copy = NoImage
    /\ image_canvas = NoGeometry /\ attempt = 0
    /\ shadow_bounds = NoGeometry /\ trims = 0 /\ shaves = 0
    /\ path = "none" /\ warned = FALSE /\ ops = <<>>
    /\ dpc = "idle" /\ mean = 0 /\ standardDeviation = 0 /\ bw_found = FALSE
    /\ ori_deg = 0 /\ image_rotated = 0 /\ pix_rotated = 0

ProccessNext ==
    \/ Deskew \/ TrimEdges \/ ShadowEnter \/ ShadowTrim \/ ShadowShave
    \/ ShadowExhausted \/ ShadowReturn \/ CropShadow

SpecProccess == ProccessInit /\ [][ProccessNext]_vars

\* ------------------------------------------------------- is_bw, orientation
\* The black-and-white check and the two rotations of a kept page, by their
\* numbers. Levels are in tenths of an rgb level (quantum_as_rgb scales the
\* quantum to 0..255), rotations in degrees clockwise.

rgb_max == 255

\* constexpr auto mean_gray_rgb_threshold{rgb_max / 6}: both operands are int
mean_gray_rgb_threshold == rgb_max \div 6

\* constexpr auto std_diff_mean_gray_threshold{15.5}, in tenths
std_diff_mean_gray_threshold == 155

\* std::abs
abs(x) == IF x < 0 THEN -x ELSE x

\* the return value of is_bw for the statistics of the solarized gray image
is_bw(m, sd) ==
    LET mean_gray == m
        std_diff_mean_gray == abs(sd - m)
    IN  /\ mean_gray < 10 * mean_gray_rgb_threshold
        /\ std_diff_mean_gray < std_diff_mean_gray_threshold

\* DetectOrientationScript: 0, 90, 180 or 270
Orientations == {0, 90, 180, 270}

\* image.rotate(360 - ori_deg)
rotate(degrees) == degrees % 360

\* pixRotateOrth(pix, quads): quads quarter turns
pixRotateOrth(quads) == (quads % 4) * 90

\* if (is_bw(image))
IsBw ==
    /\ dpc = "is_bw"
    /\ bw_found' = is_bw(mean, standardDeviation)
    /\ dpc' = "get_orientation"
    /\ UNCHANGED <<mean, standardDeviation, ori_deg, image_rotated,
                   pix_rotated>>
    /\ UNCHANGED <<mainVars, stageVars>>

\* auto ori_deg{get_orientation(tess_api.get(), pimage.get())}
GetOrientation ==
    /\ dpc = "get_orientation"
    /\ ori_deg' \in Orientations
    /\ dpc' = "rotate"
    /\ UNCHANGED <<mean, standardDeviation, bw_found, image_rotated, pix_rotated>>
    /\ UNCHANGED <<mainVars, stageVars>>

\* image.rotate(360 - ori_deg)
RotateImage ==
    /\ dpc = "rotate"
    /\ image_rotated' = rotate(360 - ori_deg)
    /\ dpc' = "rotate_pix"
    /\ UNCHANGED <<mean, standardDeviation, bw_found, ori_deg, pix_rotated>>
    /\ UNCHANGED <<mainVars, stageVars>>

\* pimage.reset(pixRotateOrth(pimage.get(), ori_deg / 90))
RotatePix ==
    /\ dpc = "rotate_pix"
    /\ pix_rotated' = pixRotateOrth(ori_deg \div 90)
    /\ dpc' = "get_text"
    /\ UNCHANGED <<mean, standardDeviation, bw_found, ori_deg, image_rotated>>
    /\ UNCHANGED <<mainVars, stageVars>>

\* a kept page with any statistics within the bounds reaches is_bw
DigestInit ==
    /\ ppc = "unborn" /\ fed = 0 /\ row = 0 /\ frame = NoPage
    /\ images_buffer = <<>> /\ done_scanning = FALSE
    /\ cpc = "reduce" /\ image = [id |-> 1, partial |-> FALSE]
    /\ applied = "none" /\ checks = <<evaluated("is_white", FALSE)>>
    /\ img_num = 0 /\ images = <<>>
    /\ document_text = <<>> /\ exc = NoExc
    /\ auto_mode = FALSE /\ filename \in Filenames /\ py_loaded = FALSE
    /\ combined_tiff = NoFile /\ combined_pdf = NoFile /\ destination = NoFile
    /\ delivery = "none"
    /\ exit_status = "running" /\ printed = NoExc /\ logged = NoExc
    /\ taken = <<1>> /\ pushed = <<1>>
    /\ unoverridden = {}
    /\ acq_error = NoExc /\ trailing = {} /\ rendered = "none"
    /\ guard_saw = "queue_nonempty" /\ log_writers = {}
    /\ spc = "idle" /\ input = NoImage /\ page = NoImage
    /\ deskew_angle = "none"
    /\ edges = NoGeometry /\ shadow_copy = NoImage
    /\ image_canvas = NoGeometry /\ attempt = 0
    /\ shadow_bounds = NoGeometry /\ trims = 0 /\ shaves = 0
    /\ path = "none" /\ warned = FALSE /\ ops = <<>>
    /\ dpc = "is_bw"
    /\ mean \in MinMean..MaxMean
    /\ \E diff \in MinDiff..MaxDiff :
         standardDeviation \in {mean - diff, mean + diff}
    /\ bw_found = FALSE
    /\ ori_deg = 0 /\ image_rotated = 0 /\ pix_rotated = 0

DigestNext == IsBw \/ GetOrientation \/ RotateImage \/ RotatePix

SpecDigest == DigestInit /\ [][DigestNext]_vars

\* ------------------------------------------------------- properties
\* page ids of a page sequence, as a set
IdSet(s) == {s[i].id : i \in DOMAIN s}

\* the pages of a rendered document, none when there is no document
PagesOf(pdf) == IF pdf = NoFile THEN <<>> ELSE pdf.pages

\* the pages of the file at the destination
DestinationPages ==
    IF destination = NoFile THEN <<>> ELSE PagesOf(destination.pdf)

\* every page id that is in the kept-page list or in a written file
OutputIds ==
    IdSet(images) \cup IdSet(combined_tiff) \cup IdSet(PagesOf(combined_pdf))
      \cup IdSet(DestinationPages)

\* the ids of a page sequence increase from left to right
Ascending(s) == \A i, j \in DOMAIN s : i < j => s[i].id < s[j].id

\* the consumer has left the while loop through its condition
LoopExited ==
    /\ cpc \in {"join", "check", "write_tiff", "resolve", "render", "deliver",
                "handler", "done"}
    /\ exc # PageError

C3_NoPageLost ==
    /\ pushed = taken \o Ids(images_buffer)
    /\ LoopExited =>
         /\ done_scanning
         /\ empty(images_buffer)
         /\ taken = pushed

C3_Witness ==
    /\ LoopExited
    /\ cpc = "join"
    /\ Len(taken) = MaxPages

\* C4: a page after whose scanline loop a further read still returned data is
\* never pushed into the queue; the run has ended, not with status 0, and
\* nothing was written to the destination.
C4_TrailingBytesFatal ==
    trailing # {} =>
      /\ trailing \cap Range(pushed) = {}
      /\ exit_status \notin {"running", "0"}
      /\ destination = NoFile

C4_Witness ==
    /\ trailing # {}
    /\ Len(pushed) >= 1
    /\ acq_error = Remaining

\* C5: a page during whose scanline reads the scanner answered an error
\* status is never pushed into the queue, and no document is produced from
\* it.
C5_ScannerErrorAborts ==
    /\ \A p \in Range(images_buffer) : ~p.partial
    /\ \A p \in Range(combined_tiff) \cup Range(PagesOf(combined_pdf))
                \cup Range(DestinationPages) : ~p.partial

\* C6: when get_next_image has thrown inside the acquisition thread, the run
\* ends through main's handler: the cause printed, logged, exit status 1.
C6_AcquisitionErrorHandled ==
    (acq_error # NoExc /\ ~Running) =>
      /\ printed = acq_error
      /\ logged = acq_error
      /\ exit_status = "1"

\* C7: after a step of a page's processing has thrown, no document is written,
\* the exit status is not 0, and the run is never stuck: while it has not
\* ended some thread can take a step.
C7_PageErrorEndsRun ==
    exc = PageError =>
      /\ destination = NoFile
      /\ combined_pdf = NoFile
      /\ exit_status # "0"
      /\ Running => ENABLED Next

\* C8 as stated: whenever the text-layer render has failed, the run ends with
\* the image-only document of the kept pages at the destination and status 0.
C8_FallbackAlwaysDelivered ==
    (rendered = "failed" /\ cpc = "done") =>
      /\ exit_status = "0"
      /\ destination = [name |-> filename,
                        pdf |-> [pages |-> images, text_layer |-> FALSE]]

\* C8: when the text-layer render has failed, the image-only document is
\* written from the kept pages in their order; if that write and the copy to
\* the destination succeed that document is delivered and the status is 0,
\* otherwise nothing is delivered, the error is reported and the status is 1.
C8_FallbackDelivered ==
    /\ (rendered = "failed" /\ cpc = "deliver") =>
         combined_pdf = [pages |-> images, text_layer |-> FALSE]
    /\ (rendered = "failed" /\ cpc = "done") =>
         IF exc = NoExc
           THEN /\ exit_status = "0"
                /\ destination = [name |-> filename,
                                  pdf |-> [pages |-> images,
                                           text_layer |-> FALSE]]
           ELSE /\ exit_status = "1"
                /\ exc \in {WriteError, CopyError}
                /\ printed = exc
                /\ destination = NoFile

C8_Witness ==
    /\ rendered = "failed"
    /\ exit_status = "0"
    /\ Len(DestinationPages) >= 2

C10_TokensResolved ==
    (auto_mode /\ cpc \in {"render", "deliver"}) =>
      \A i \in DOMAIN filename : filename[i] \notin PatternTokens

\* C11: a guesser that could not be loaded at start-up never ends the run:
\* from then on "[org]" stands for the organization token, and the guesser's
\* import error is never the exception main's handler reports.
C11_GuesserFailureAbsorbed ==
    /\ (cpc # "init" /\ ~py_loaded) =>
         \A i \in DOMAIN filename : filename[i] # "%o"
    /\ exc # PyError

\* what check returned for the page being digested; FALSE when it was not
\* evaluated
Returned(check) ==
    \E i \in DOMAIN checks : checks[i] = evaluated(check, TRUE)

\* C15: once the classification of a kept page has run, the operations applied
\* to it are those of exactly one row of the transform table: auto-level,
\* unsharp mask and OTSU threshold for black-and-white with text (never
\* Kapur); brightness/contrast and Kapur threshold for black-and-white
\* without text; the grayscale conversion for grayscale; none otherwise.
C15_TransformByClass ==
    (cpc \in {"collect", "advance"} /\ Len(checks) > 1) =>
      operations(applied) =
        IF Returned("is_bw")
          THEN IF Returned("has_text")
                 THEN <<"autoLevel", "unsharpmask", "autoThreshold OTSU">>
                 ELSE <<"brightnessContrast", "autoThreshold Kapur">>
          ELSE IF Returned("is_grayscale")
                 THEN <<"brightnessContrast", "opaque",
                        "colorSpace LinearGRAY">>
                 ELSE <<>>

C15_Witness ==
    /\ cpc = "advance"
    /\ Returned("is_bw") /\ Returned("has_text")
    /\ applied = "with_text_to_bw"
    /\ Len(images) >= 2

\* C16: the kept-page list never holds more pages than were taken from the
\* queue, holds only pages that were taken, each of them once, and never a
\* page the operator declined at the blank gate.
C16_KeptWithinDequeued ==
    /\ Len(images) <= Len(taken)
    /\ IdSet(images) \subseteq Range(taken)
    /\ \A i, j \in DOMAIN images : images[i].id = images[j].id => i = j
    /\ \A i, j \in DOMAIN taken : taken[i] = taken[j] => i = j
    /\ \A b \in unoverridden :
         b.declined => \A i \in DOMAIN images : images[i].id # b.id

C16_Witness ==
    /\ Len(images) = 2
    /\ Len(taken) = 3
    /\ \E b \in unoverridden : b.declined /\ b.id < images[2].id

\* C17: the flag is set once the acquisition thread is past its loop; from
\* the step that sets it on, it stays set and nothing more is pushed.
C17_FlagSetOnceAfterLastPush ==
    /\ [](done_scanning <=> ppc \in {"log_done", "returned"})
    /\ [][done_scanning' # done_scanning =>
            (~done_scanning /\ ppc = "set_done" /\ pushed' = pushed)]_vars
    /\ [][done_scanning =>
            (done_scanning' /\ pushed' = pushed
             /\ Len(images_buffer') <= Len(images_buffer))]_vars

C17_Witness ==
    /\ done_scanning
    /\ ppc = "returned"
    /\ Len(pushed) = MaxPages
    /\ cpc = "take"

\* C18: the consumer enters the sleep only from the test that found the
\* queue empty, in a turn of the loop it entered because it saw the flag
\* unset, and with no page in its hands.
C18_SleepOnlyWhenIdle ==
    /\ [](cpc = "sleep" =>
            (guard_saw = "flag_unset" /\ image = NoPage /\ checks = <<>>))
    /\ [][(cpc # "sleep" /\ cpc' = "sleep") =>
            (cpc = "body" /\ empty(images_buffer))]_vars

C18_Witness ==
    /\ cpc = "sleep"
    /\ Len(taken) >= 1
    /\ ~empty(images_buffer)

\* C19: while the acquisition thread runs, no object other than the queue and
\* the flag is used by both threads: the global logger has one caller.
C19_OnlyQueueAndFlagShared == Cardinality(log_writers) <= 1

\* C20: for the page being digested is_white is evaluated first, is_bw
\* second, and third has_text when is_bw returned true, is_grayscale when it
\* returned false; for a page discarded at the gate only is_white is
\* evaluated.
C20_CheckOrder ==
    /\ Len(checks) <= 3
    /\ \A i \in DOMAIN checks :
         /\ checks[i].check = "is_white" <=> i = 1
         /\ checks[i].check = "is_bw" <=> i = 2
         /\ checks[i].check = "has_text" =>
              i = 3 /\ checks[2] = evaluated("is_bw", TRUE)
         /\ checks[i].check = "is_grayscale" =>
              i = 3 /\ checks[2] = evaluated("is_bw", FALSE)
    /\ (cpc = "advance" /\ image # NoPage) => Len(checks) = 1

C20_Witness ==
    /\ cpc = "advance"
    /\ Len(checks) = 3
    /\ checks[3].check = "is_grayscale"
    /\ \E b \in unoverridden : b.declined

\* C12: the retry loop of get_trim_shadow_bounds trims at most 10 times,
\* shaves at most once after each trim, and always comes to its return,
\* whether a trim is accepted, the turns run out or a trim or a shave
\* raises: inside the loop a step can always be taken, and every step either
\* is one more trim or shave or leaves the loop for the return.
C12_ShadowTrimTerminates ==
    /\ [](trims <= 10 /\ shaves <= trims /\ trims <= shaves + 1)
    /\ [](spc \in {"trim", "shave", "return"} => ENABLED ProccessNext)
    /\ [][(spc = "trim" \/ spc = "shave") =>
            (spc' = "return" \/
             (spc' \in {"trim", "shave"} /\
              trims' + shaves' = trims + shaves + 1))]_vars
    /\ [][spc = "return" => spc' = "crop"]_vars

C12_Witness ==
    /\ spc = "crop"
    /\ path = "exhausted"
    /\ trims = 10 /\ shaves = 10

\* C13: the bounds get_trim_shadow_bounds returns are never wider or higher
\* than the page it was given, however the loop ended, and the crop made
\* with them leaves the page no wider and no higher.
C13_BoundsWithinPage ==
    /\ [](spc = "crop" =>
            /\ path \in {"accepted", "exhausted", "caught"}
            /\ shadow_bounds[1] <= page.w
            /\ shadow_bounds[2] <= page.h)
    /\ [][spc = "crop" => (page'.w <= page.w /\ page'.h <= page.h)]_vars

C13_Witness ==
    /\ spc = "returned"
    /\ path = "accepted"
    /\ shaves >= 2
    /\ page.h < input.h

\* C14: a page with skew angle 0, whose edge trim found the whole page and
\* on which no trim under the shadow changed the bounds, leaves proccess
\* with the columns and rows it came with.
C14_NoOpKeepsGeometry ==
    (/\ spc = "returned"
     /\ deskew_angle = "0"
     /\ edges = formatExpression(input)
     /\ path \in {"exhausted", "caught"}) =>
      (page.w = input.w /\ page.h = input.h)

C14_Witness ==
    /\ spc = "returned"
    /\ deskew_angle = "0"
    /\ edges = formatExpression(input)
    /\ path = "exhausted"
    /\ shaves = 10
    /\ shadow_copy.h < input.h
    /\ page = input

\* C24: when the text-layer render is called, its time budget is 10 000 ms
\* for each kept page.
C24_BudgetPerKeptPage ==
    cpc = "render" =>
      timeout_millisec(images_buffer, images) = 10000 * Len(images)

\* the ids of the kept pages, in the order of the list
KeptIds == [i \in DOMAIN images |-> images[i].id]

\* C26: the text buffer holds the text of the kept pages that had text, in
\* the order of the kept-page list and once each, and nothing of any other
\* page; it grows only in the step that appends the page to the list, by
\* that page's text.
C26_TextOfKeptPages ==
    /\ [](LET contributed(id) == id \in Range(document_text)
          IN  document_text = SelectSeq(KeptIds, contributed))
    /\ [][(document_text' # document_text) =>
            (/\ cpc = "collect"
             /\ images' = Append(images, image)
             /\ document_text' = Append(document_text, image.id))]_vars

C26_Witness ==
    /\ LoopExited
    /\ cpc = "check"
    /\ Len(taken) = 3
    /\ Len(images) = 2
    /\ document_text = <<images[1].id, images[2].id>>
    /\ \E b \in unoverridden : b.declined /\ b.id < images[2].id

\* C29: the consumer is at its call of take() only with a page in the queue.
C29_TakeOnlyNonEmpty ==
    cpc = "take" => ~empty(images_buffer) /\ take(images_buffer) # NoPage

C29_Witness ==
    /\ cpc = "take"
    /\ ~done_scanning
    /\ Len(taken) >= 1
    /\ guard_saw = "flag_unset"

\* C30: with no page kept nothing is written, and a run whose consumer loop
\* ended with no page kept goes to the handler with "Too few images to output
\* a pdf." and ends with that error printed and logged and status 1.
C30_TooFewImages ==
    /\ images = <<>> =>
         (combined_tiff = NoFile /\ combined_pdf = NoFile
          /\ destination = NoFile)
    /\ (LoopExited /\ images = <<>> /\ cpc \notin {"join", "check"}) =>
         /\ cpc \in {"handler", "done"}
         /\ exc = TooFew
         /\ cpc = "done" =>
              (printed = TooFew /\ logged = TooFew /\ exit_status = "1")

C30_Witness ==
    /\ cpc = "done"
    /\ images = <<>>
    /\ Len(taken) = 2
    /\ printed = TooFew
    /\ exit_status = "1"

C22_EntryBoundsKept ==
    /\ []((spc = "crop" /\ path \in {"exhausted", "caught"}) =>
            shadow_bounds = formatExpression(page))
    /\ [][(spc = "crop" /\ path \in {"exhausted", "caught"}
           /\ spc' = "returned") => page' = page]_vars
    /\ [][(path # "caught" /\ path' = "caught") =>
            (spc \in {"trim", "shave"} /\ spc' = "return"
             /\ image_canvas' = formatExpression(page))]_vars

C22_Witness ==
    /\ spc = "returned"
    /\ path = "caught"
    /\ shaves = 3 /\ trims = 3
    /\ shadow_copy.h = 1
    /\ page.h = 3

\* C23: when the turns of the loop ran out with no trim changing the bounds,
\* the warning has been logged by the time the function returns.
C23_WarnedWhenExhausted ==
    (path = "exhausted" /\ spc \in {"crop", "returned", "threw"}) => warned

\* the place of an operation in the operations applied so far, 0 when it has
\* not been applied
Place(op) ==
    IF \E i \in DOMAIN ops : ops[i] = op
      THEN CHOOSE i \in DOMAIN ops : ops[i] = op
      ELSE 0

C25_SameRotation == dpc = "get_text" => pix_rotated = image_rotated

\* C28: is_bw returns true exactly when the mean is below 255/6 as a real
\* number and the distance of the standard deviation from the mean is below
\* 15.5.
C28_BwThresholds ==
    dpc # "is_bw" =>
      (bw_found <=> (/\ 6 * mean < 10 * 255
                     /\ abs(standardDeviation - mean) < 155))

====
